---------------------------- MODULE Spec2Model ----------------------------
(***************************************************************************)
(* A model of go-pxe: the DHCP responder with its lease allocator and      *)
(* packet codec (package dhcp) and the TFTP read-transfer engine           *)
(* (package tftp).  Bytes are naturals 0..255, byte strings are sequences  *)
(* of bytes, Go's zero-based data[i] is At(data, i).                       *)
(***************************************************************************)
EXTENDS Integers, Sequences, FiniteSets, TLC

(***************************************************************************)
(* Bounds of the model.                                                    *)
(***************************************************************************)
NumMACs == 3
NumCallers == 2
MaxFullBlocks == 2
MaxNameLen == 5
MaxOptLen == 5

(***************************************************************************)
(* Program constants.                                                      *)
(***************************************************************************)
opRRQ == 1
opWRQ == 2
opDATA == 3
opACK == 4
opERR == 5
blockSize == 512

DISCOVER == 1
OFFER == 2
REQUEST == 3
ACK == 5

OptSubnetMask == 1
OptRouter == 3
OptDNS == 6
OptBroadcast == 28
OptLeaseTime == 51
OptMessageType == 53
OptServerID == 54
OptTFTPServer == 66
OptBootFile == 67
OptClientArch == 93
OptEnd == 255

(***************************************************************************)
(* Byte strings.                                                           *)
(***************************************************************************)
At(data, i) == data[i + 1]

Slice(data, a, b) == SubSeq(data, a + 1, b)

Zeros(n) == [i \in 1..n |-> 0]

\* copy(dst[:n], src) into a zeroed array of n bytes
CopyInto(n, src) == [i \in 1..n |-> IF i <= Len(src) THEN src[i] ELSE 0]

Uint16(b) == b[1] * 256 + b[2]

PutUint16(v) == <<(v \div 256) % 256, v % 256>>

PutUint32(v) ==
  <<v \div 16777216, (v \div 65536) % 256, (v \div 256) % 256, v % 256>>

Uint32(b) == ((b[1] * 256 + b[2]) * 256 + b[3]) * 256 + b[4]

\* val := Uint32(ipv4); val++; PutUint32(ipv4, val): the 32-bit increment,
\* byte by byte with carry, wrapping from 255.255.255.255 to 0.0.0.0
Uint32Inc(b) ==
  IF b[4] < 255 THEN <<b[1], b[2], b[3], b[4] + 1>>
  ELSE IF b[3] < 255 THEN <<b[1], b[2], b[3] + 1, 0>>
  ELSE IF b[2] < 255 THEN <<b[1], b[2] + 1, 0, 0>>
  ELSE IF b[1] < 255 THEN <<b[1] + 1, 0, 0, 0>>
  ELSE <<0, 0, 0, 0>>

RECURSIVE BitOr(_, _)
BitOr(a, b) ==
  IF a = 0 THEN b
  ELSE IF b = 0 THEN a
  ELSE (IF a % 2 = 1 \/ b % 2 = 1 THEN 1 ELSE 0) + 2 * BitOr(a \div 2, b \div 2)

BitNot8(a) == 255 - a

\* big-endian order of two IPv4 addresses
IPLess(a, b) ==
  \E i \in 1..4 : a[i] < b[i] /\ \A j \in 1..(i - 1) : a[j] = b[j]

IPLeq(a, b) == a = b \/ IPLess(a, b)

(***************************************************************************)
(* Hardware addresses and their text form (net.HardwareAddr.String).       *)
(***************************************************************************)
HexDigit == <<"0", "1", "2", "3", "4", "5", "6", "7",
              "8", "9", "a", "b", "c", "d", "e", "f">>

RECURSIVE String(_)
String(mac) ==
  IF Len(mac) = 0 THEN <<>>
  ELSE LET b == mac[1]
           hex == <<HexDigit[(b \div 16) + 1], HexDigit[(b % 16) + 1]>>
       IN IF Len(mac) = 1 THEN hex ELSE hex \o <<":">> \o String(Tail(mac))

MACs == { <<2, 0, 0, 0, 0, k>> : k \in 1..NumMACs }

(***************************************************************************)
(* Config: the configurations the server is started with.                  *)
(***************************************************************************)
Configs ==
  { [ServerIP |-> <<10, 0, 0, 1>>, RangeStart |-> <<10, 0, 0, 100>>,
     RangeEnd |-> <<10, 0, 0, 101>>, SubnetMask |-> <<255, 255, 255, 0>>,
     BootFile |-> <<98, 46, 101>>, TFTPServer |-> <<49, 48, 46, 49>>],
    [ServerIP |-> <<10, 0, 0, 1>>, RangeStart |-> <<10, 0, 0, 255>>,
     RangeEnd |-> <<10, 0, 1, 0>>, SubnetMask |-> <<255, 255, 0, 0>>,
     BootFile |-> <<98, 46, 101>>, TFTPServer |-> <<49, 48, 46, 49>>],
    [ServerIP |-> <<255, 255, 255, 1>>, RangeStart |-> <<255, 255, 255, 254>>,
     RangeEnd |-> <<255, 255, 255, 255>>, SubnetMask |-> <<255, 255, 255, 0>>,
     BootFile |-> <<98, 46, 101>>, TFTPServer |-> <<49, 48, 46, 49>>] }

(***************************************************************************)
(* The DHCP packet decoder.                                                *)
(***************************************************************************)
NoOptions == [t \in {} |-> <<>>]

SetOpt_KeepFirst(opts, tag, val) ==
  [t \in (DOMAIN opts) \cup {tag} |-> IF t \in DOMAIN opts THEN opts[t] ELSE val]

SetOpt(opts, tag, val) ==
  [t \in (DOMAIN opts) \cup {tag} |-> IF t = tag THEN val ELSE opts[t]]

\* Options[tag] of a Go map: the zero value (nil) when the key is absent
GetOpt(opts, tag) == IF tag \in DOMAIN opts THEN opts[tag] ELSE <<>>

RECURSIVE parseOptions(_, _, _)
parseOptions(data, i, opts) ==
  IF ~(i < Len(data)) THEN opts
  ELSE LET opt == At(data, i) IN
    IF opt = OptEnd THEN opts
    ELSE IF opt = 0 THEN parseOptions(data, i + 1, opts)
    ELSE IF i + 1 >= Len(data) THEN opts
    ELSE LET length == At(data, i + 1) IN
      IF i + 2 + length > Len(data) THEN opts
      ELSE parseOptions(data, i + 2 + length,
                        SetOpt(opts, opt, Slice(data, i + 2, i + 2 + length)))

HasCookie_Unchecked(data) == Len(data) > 240

HasCookie(data) ==
  /\ Len(data) > 240
  /\ At(data, 236) = 99 /\ At(data, 237) = 130
  /\ At(data, 238) = 83 /\ At(data, 239) = 99

parsePacket(data) ==
  IF Len(data) < 240 THEN [err |-> TRUE]
  ELSE [err |-> FALSE,
        Op |-> At(data, 0), HType |-> At(data, 1),
        HLen |-> At(data, 2), Hops |-> At(data, 3),
        XID |-> Uint32(Slice(data, 4, 8)),
        Secs |-> Uint16(Slice(data, 8, 10)),
        Flags |-> Uint16(Slice(data, 10, 12)),
        CIAddr |-> Slice(data, 12, 16), YIAddr |-> Slice(data, 16, 20),
        SIAddr |-> Slice(data, 20, 24), GIAddr |-> Slice(data, 24, 28),
        CHAddr |-> Slice(data, 28, 34),
        SName |-> Slice(data, 44, 108), File |-> Slice(data, 108, 236),
        Options |-> IF HasCookie(data)
                    THEN parseOptions(data, 240, NoOptions) ELSE NoOptions]


(***************************************************************************)
(* State.                                                                  *)
(*   DHCP service: config, leases, nextIP are the Server's fields; dpc is  *)
(*   the receive loop's position, req the packet it is handling (its pkt,  *)
(*   NoPacket between two datagrams), call the arguments msgType and       *)
(*   clientIP of the sendReply call it is in (NoCall outside it).  cur,    *)
(*   out, sends, offered and order are history: the datagram being         *)
(*   handled, the replies built and the send attempts made for it, the     *)
(*   address of each hardware address's first OFFER, and the hardware      *)
(*   addresses in the order their leases were created.                     *)
(*   Concurrent allocateIP callers: mu is the mutex (0 when free), cpc,    *)
(*   cmac, cip and cret each caller's position, argument, local ip and     *)
(*   returned address.                                                     *)
(*   TFTP service: files maps each file's path to its size, hpc   *)
(*   the handler's position, filename its argument, dataLen, block,        *)
(*   offset, retries its locals, dial the outcome of DialUDP; readPath,    *)
(*   wire and exhausted are history: the path ReadFile returned data for,  *)
(*   the packets written to the requester, and whether some block's five   *)
(*   attempts all failed; so are acked, the blocks (number and file        *)
(*   offset) a matching ACK was read for, and openPath, the path given to  *)
(*   ReadFile.  wire and acked keep the first HistoryLen packets and the   *)
(*   first HistoryLen blocks of a transfer.                                *)
(*   Packet codec: codecIn is the datagram given to parsePacket, codecPkt  *)
(*   the packet it returned, codecOut the bytes serializePacket last       *)
(*   returned for that packet (empty before it was called).                *)
(***************************************************************************)
VARIABLES config, leases, nextIP, dpc, req, call, cur, out, sends, offered,
          order,
          mu, cpc, cmac, cip, cret,
          files, hpc, filename, dataLen, block, offset, retries, dial,
          readPath, wire, exhausted, acked, openPath,
          codecIn, codecPkt, codecOut

dhcpVars ==
  <<config, leases, nextIP, dpc, req, call, cur, out, sends, offered, order>>

concVars == <<mu, cpc, cmac, cip, cret>>

tftpVars == <<files, hpc, filename, dataLen, block, offset, retries, dial,
              readPath, wire, exhausted, acked, openPath>>

codecVars == <<codecIn, codecPkt, codecOut>>

vars == <<dhcpVars, concVars, tftpVars, codecVars>>

(***************************************************************************)
(* The lease allocator.                                                    *)
(***************************************************************************)
NoLeases == [k \in {} |-> <<>>]

SetLease_Replace(ls, macStr, l) == [k \in {macStr} |-> l]

SetLease(ls, macStr, l) ==
  [k \in (DOMAIN ls) \cup {macStr} |-> IF k = macStr THEN l ELSE ls[k]]

\* NewServer: an empty lease table, the cursor at the range start
NewServer(cfg) == [leases |-> NoLeases, nextIP |-> cfg.RangeStart]

\* the lookup: whether the table holds a lease for macStr
HasLease_Never(ls, macStr) == FALSE

HasLease(ls, macStr) == macStr \in DOMAIN ls

\* the address a new lease gets
NewLeaseIP(cursor) == cursor

\* the cursor after a new lease
AdvanceCursor(cursor) == Uint32Inc(cursor)

\* allocateIP under the mutex, as one step: the address returned and the
\* table and cursor it leaves
allocateIP(ls, cursor, mac) ==
  LET macStr == String(mac) IN
  IF HasLease(ls, macStr)
  THEN [ip |-> ls[macStr].IP, leases |-> ls, nextIP |-> cursor]
  ELSE LET ip == NewLeaseIP(cursor) IN
       [ip |-> ip,
        leases |-> SetLease(ls, macStr, [IP |-> ip, MAC |-> mac]),
        nextIP |-> AdvanceCursor(cursor)]

(***************************************************************************)
(* The DHCP responder.                                                     *)
(***************************************************************************)
IPv4bcast == <<255, 255, 255, 255>>

\* subnet[i] = serverIP[i] | ^mask[i]
SubnetBroadcast(cfg) ==
  [i \in 1..4 |-> BitOr(cfg.ServerIP[i], BitNot8(cfg.SubnetMask[i]))]

BuildReply(cfg, rq, msgType, clientIP) ==
  [Op |-> 2, HType |-> 1, HLen |-> 6, Hops |-> 0,
   XID |-> rq.XID, Secs |-> 0, Flags |-> rq.Flags,
   CIAddr |-> <<>>, YIAddr |-> clientIP, SIAddr |-> cfg.ServerIP,
   GIAddr |-> <<>>, CHAddr |-> rq.CHAddr,
   SName |-> CopyInto(64, cfg.TFTPServer),
   File |-> CopyInto(128, cfg.BootFile),
   Options |->
     (OptMessageType :> <<msgType>>) @@ (OptServerID :> cfg.ServerIP) @@
     (OptSubnetMask :> cfg.SubnetMask) @@ (OptRouter :> cfg.ServerIP) @@
     (OptDNS :> cfg.ServerIP) @@ (OptLeaseTime :> <<0, 0, 14, 16>>) @@
     (OptBootFile :> cfg.BootFile) @@ (OptTFTPServer :> cfg.TFTPServer) @@
     (OptBroadcast :> SubnetBroadcast(cfg))]

SendTarget_GlobalFirst(cfg, attempt) ==
  IF attempt = 1 THEN [IP |-> IPv4bcast, Port |-> 68]
  ELSE [IP |-> SubnetBroadcast(cfg), Port |-> 68]

\* the destinations of the WriteToUDP calls of sendReply: subnetBcast for
\* the first, dst for the one in its error branch
SendTarget(cfg, attempt) ==
  IF attempt = 1 THEN [IP |-> SubnetBroadcast(cfg), Port |-> 68]
  ELSE [IP |-> IPv4bcast, Port |-> 68]

\* one conn.WriteToUDP(data, addr) and whether it returned an error
WriteToUDP(addr, fail) == [IP |-> addr.IP, Port |-> addr.Port, ok |-> ~fail]

(***************************************************************************)
(* The datagrams the DHCP socket receives.  kind says what the sender      *)
(* meant; the server sees only data.                                       *)
(***************************************************************************)
Cookie == <<99, 130, 83, 99>>

Bootp(xid, flags, chaddr, cookie, opts) ==
  <<1, 1, 6, 0>> \o xid \o <<0, 0>> \o PutUint16(flags) \o Zeros(16) \o
  chaddr \o Zeros(10) \o Zeros(64) \o Zeros(128) \o cookie \o opts

Xid(mac) == <<0, 0, 7, mac[6]>>

Mac1 == <<2, 0, 0, 0, 0, 1>>

DhcpInputs ==
  { [kind |-> "DISCOVER", mac |-> m,
     data |-> Bootp(Xid(m), 32768, m, Cookie, <<53, 1, 1, 255>>)] : m \in MACs }
  \cup
  { [kind |-> "REQUEST", mac |-> m,
     data |-> Bootp(Xid(m), 0, m, Cookie,
                    <<53, 1, 3, 50, 4, 10, 0, 0, 100, 255>>)] : m \in MACs }
  \cup
  { [kind |-> "DISCOVER", mac |-> Mac1,
     data |-> Bootp(Xid(Mac1), 0, Mac1, Cookie,
                    <<0, 93, 2, 0, 7, 0, 53, 1, 1, 255>>)],
    [kind |-> "other", mac |-> Mac1,
     data |-> Bootp(Xid(Mac1), 0, Mac1, Cookie, <<53, 1, 8, 255>>)],
    [kind |-> "other", mac |-> Mac1,
     data |-> Bootp(Xid(Mac1), 0, Mac1, Cookie, <<53, 1, 2, 255>>)],
    [kind |-> "notype", mac |-> Mac1,
     data |-> Bootp(Xid(Mac1), 0, Mac1, Cookie, <<1, 4, 255, 255, 255, 0, 255>>)],
    [kind |-> "notype", mac |-> Mac1,
     data |-> Bootp(Xid(Mac1), 0, Mac1, Cookie, <<255>>)],
    [kind |-> "notype", mac |-> Mac1,
     data |-> Bootp(Xid(Mac1), 0, Mac1, Cookie, <<53, 0, 255>>)],
    [kind |-> "notype", mac |-> Mac1,
     data |-> Bootp(Xid(Mac1), 0, Mac1, Cookie, <<>>)],
    [kind |-> "nocookie", mac |-> Mac1,
     data |-> Bootp(Xid(Mac1), 0, Mac1, <<99, 130, 83, 0>>, <<53, 1, 1, 255>>)],
    [kind |-> "nocookie", mac |-> Mac1,
     data |-> Bootp(Xid(Mac1), 0, Mac1, <<0, 0, 0, 0>>, <<53, 1, 3, 255>>)],
    [kind |-> "short", mac |-> Mac1,
     data |-> SubSeq(Bootp(Xid(Mac1), 0, Mac1, Cookie, <<>>), 1, 239)],
    [kind |-> "short", mac |-> Mac1, data |-> <<>>] }

NoPacket == [err |-> TRUE]

NoCall == [msgType |-> 0]

\* remote of ReadFromUDP: a client without an address sends from 0.0.0.0,
\* one that has configured its offer sends from a unicast address
RemoteOf(d) ==
  IF d.kind = "REQUEST" THEN <<10, 0, 0, 99 + d.mac[6]>> ELSE <<0, 0, 0, 0>>

\* ListenAndServe (dhcp): one datagram read, decoded and dispatched
dhcpListenAndServe(d) ==
  /\ dpc = "recv"
  /\ LET pkt == parsePacket(d.data)
         msgType == IF pkt.err THEN <<>> ELSE GetOpt(pkt.Options, OptMessageType)
         go == IF pkt.err \/ Len(msgType) = 0 THEN "recv"
               ELSE IF msgType[1] = DISCOVER THEN "sendOffer"
               ELSE IF msgType[1] = REQUEST THEN "sendACK"
               ELSE "recv"
     IN /\ dpc' = go
        /\ req' = IF go = "recv" THEN NoPacket ELSE pkt
  /\ cur' = [kind |-> d.kind, mac |-> d.mac, remote |-> RemoteOf(d)]
  /\ out' = <<>>
  /\ sends' = <<>>
  /\ UNCHANGED <<config, leases, nextIP, call, offered, order>>
  /\ UNCHANGED <<concVars, tftpVars, codecVars>>

\* sendOffer / sendACK up to the call of sendReply: ip := s.allocateIP(...),
\* which takes the mutex and has released it when it returns
Respond(msgType) ==
  LET a == allocateIP(leases, nextIP, req.CHAddr)
      macStr == String(req.CHAddr)
  IN /\ leases' = a.leases
     /\ nextIP' = a.nextIP
     /\ order' = IF macStr \in DOMAIN leases THEN order ELSE Append(order, macStr)
     /\ call' = [msgType |-> msgType, clientIP |-> a.ip]
     /\ dpc' = "sendReply"
     /\ UNCHANGED <<config, req, cur, out, sends, offered>>
     /\ UNCHANGED <<concVars, tftpVars, codecVars>>

sendOffer ==
  /\ dpc = "sendOffer"
  /\ Respond(OFFER)

sendACK ==
  /\ dpc = "sendACK"
  /\ Respond(ACK)

\* sendReply up to the return of its first WriteToUDP: the reply is built
\* and sent to the subnet broadcast address; sendReply, its caller and the
\* loop's iteration are over when that send succeeded
sendReply(fail) ==
  /\ dpc = "sendReply"
  /\ LET reply == BuildReply(config, req, call.msgType, call.clientIP)
         macStr == String(req.CHAddr)
     IN /\ out' = Append(out, reply)
        /\ offered' = IF call.msgType = OFFER /\ macStr \notin DOMAIN offered
                      THEN SetLease(offered, macStr, call.clientIP) ELSE offered
  /\ sends' = Append(sends, WriteToUDP(SendTarget(config, 1), fail))
  /\ dpc' = IF fail THEN "fallback" ELSE "recv"
  /\ req' = IF fail THEN req ELSE NoPacket
  /\ call' = IF fail THEN call ELSE NoCall
  /\ UNCHANGED <<config, leases, nextIP, cur, order>>
  /\ UNCHANGED <<concVars, tftpVars, codecVars>>

\* the error branch of sendReply: the second WriteToUDP, to the global
\* broadcast address; its error is logged only
sendReplyFallback(fail) ==
  /\ dpc = "fallback"
  /\ sends' = Append(sends, WriteToUDP(SendTarget(config, 2), fail))
  /\ dpc' = "recv"
  /\ req' = NoPacket
  /\ call' = NoCall
  /\ UNCHANGED <<config, leases, nextIP, cur, out, offered, order>>
  /\ UNCHANGED <<concVars, tftpVars, codecVars>>

(***************************************************************************)
(* Idle values of the parts of the state a specification does not use.     *)
(***************************************************************************)
ConcIdle ==
  /\ mu = 0
  /\ cpc = <<>> /\ cmac = <<>> /\ cip = <<>> /\ cret = <<>>

CodecIdle ==
  /\ codecIn = <<>> /\ codecPkt = [err |-> TRUE] /\ codecOut = <<>>

TftpIdle ==
  /\ files = <<>> /\ hpc = "none" /\ filename = <<>> /\ dataLen = 0
  /\ block = 0 /\ offset = 0 /\ retries = 0 /\ dial = "none"
  /\ readPath = <<>> /\ wire = <<>> /\ exhausted = FALSE
  /\ acked = {} /\ openPath = <<>>

DhcpInit ==
  /\ config \in Configs
  /\ leases = NewServer(config).leases
  /\ nextIP = NewServer(config).nextIP
  /\ dpc = "recv"
  /\ req = NoPacket
  /\ call = NoCall
  /\ cur = [kind |-> "none", mac |-> <<>>, remote |-> <<>>]
  /\ out = <<>>
  /\ sends = <<>>
  /\ offered = NoLeases
  /\ order = <<>>

(***************************************************************************)
(* Spec: the DHCP service.                                                 *)
(***************************************************************************)
Init == DhcpInit /\ ConcIdle /\ TftpIdle /\ CodecIdle

Next ==
  \/ \E d \in DhcpInputs : dhcpListenAndServe(d)
  \/ sendOffer
  \/ sendACK
  \/ \E fail \in BOOLEAN : sendReply(fail)
  \/ \E fail \in BOOLEAN : sendReplyFallback(fail)

Spec == Init /\ [][Next]_vars

(***************************************************************************)
(* Properties of the DHCP service.                                         *)
(***************************************************************************)
InRange(cfg, ip) == IPLeq(cfg.RangeStart, ip) /\ IPLeq(ip, cfg.RangeEnd)

MsgTypeOf(pkt) == pkt.Options[OptMessageType][1]

\* C3: every address allocate returns (the "your IP" of every reply, the IP
\* of every lease) lies in [RangeStart, RangeEnd]; once the range is used
\* up no address is handed out.
C3_NeverOutsideRange ==
  /\ \A i \in 1..Len(out) : InRange(config, out[i].YIAddr)
  /\ \A k \in DOMAIN leases : InRange(config, leases[k].IP)

\* C4: a lease, once created, is never changed or removed, and a call for
\* a hardware address that has a lease returns that lease's address and
\* leaves the lease table and the cursor unchanged.
C4_Step ==
  /\ \A k \in DOMAIN leases : k \in DOMAIN leases' /\ leases'[k] = leases[k]
  /\ (dpc \in {"sendOffer", "sendACK"} /\ String(req.CHAddr) \in DOMAIN leases)
       => /\ leases' = leases
          /\ nextIP' = nextIP
          /\ call'.clientIP = leases[String(req.CHAddr)].IP

C4_Idempotent == [][C4_Step]_vars

\* a DISCOVER answered from an existing lease after a later lease was created
C4_Witness ==
  /\ dpc = "recv" /\ Len(out) = 1 /\ MsgTypeOf(out[1]) = OFFER
  /\ Len(order) >= 2 /\ order[1] = String(out[1].CHAddr)
  /\ out[1].YIAddr = leases[order[1]].IP

\* C5: the k-th new hardware address receives RangeStart + (k-1): the first
\* gets RangeStart, each later one the successor of the one before, in
\* increasing order, all distinct.
C5_IncreasingFromStart ==
  /\ \A k \in 1..Len(order) :
       /\ k = 1 => leases[order[k]].IP = config.RangeStart
       /\ k > 1 => /\ leases[order[k]].IP = Uint32Inc(leases[order[k - 1]].IP)
                   /\ IPLess(leases[order[k - 1]].IP, leases[order[k]].IP)
  /\ \A a, b \in DOMAIN leases : a # b => leases[a].IP # leases[b].IP

\* C7: an ACK for a hardware address that was sent an OFFER carries the
\* OFFER's address as "your IP".
C7_AckMatchesOffer ==
  \A i \in 1..Len(out) :
    (MsgTypeOf(out[i]) = ACK /\ String(out[i].CHAddr) \in DOMAIN offered)
      => out[i].YIAddr = offered[String(out[i].CHAddr)]

\* a REQUEST answered for the first hardware address offered, after other
\* hardware addresses were given leases in between
C7_Witness ==
  /\ dpc = "recv" /\ Len(out) = 1 /\ MsgTypeOf(out[1]) = ACK
  /\ String(out[1].CHAddr) \in DOMAIN offered
  /\ Len(order) >= 3 /\ order[1] = String(out[1].CHAddr)

\* C8: a DISCOVER gets exactly one OFFER and a REQUEST exactly one ACK, for
\* the sender's hardware address; any other datagram gets no reply, no send
\* attempt, leaves the lease table and cursor as they were, and the loop
\* goes on to the next datagram.
Dropped == {"other", "notype", "nocookie", "short"}

C8_Handled ==
  /\ dpc = "recv" =>
       /\ cur.kind = "DISCOVER" =>
            /\ Len(out) = 1 /\ MsgTypeOf(out[1]) = OFFER
            /\ out[1].CHAddr = cur.mac /\ Len(sends) >= 1
       /\ cur.kind = "REQUEST" =>
            /\ Len(out) = 1 /\ MsgTypeOf(out[1]) = ACK
            /\ out[1].CHAddr = cur.mac /\ Len(sends) >= 1
       /\ cur.kind \in Dropped => out = <<>> /\ sends = <<>>
  /\ dpc = "sendOffer" => cur.kind = "DISCOVER" /\ out = <<>>
  /\ dpc = "sendACK" => cur.kind = "REQUEST" /\ out = <<>>
  /\ dpc = "sendReply" =>
       /\ out = <<>>
       /\ call.msgType = (IF cur.kind = "DISCOVER" THEN OFFER ELSE ACK)
       /\ cur.kind \in {"DISCOVER", "REQUEST"}
  /\ dpc = "fallback" =>
       /\ Len(out) = 1
       /\ MsgTypeOf(out[1]) = (IF cur.kind = "DISCOVER" THEN OFFER ELSE ACK)
       /\ cur.kind \in {"DISCOVER", "REQUEST"}

C8_DropStep ==
  (dpc = "recv" /\ cur'.kind \in Dropped)
    => leases' = leases /\ nextIP' = nextIP /\ dpc' = "recv"

C8_OneReplyPerDatagram == []C8_Handled /\ [][C8_DropStep]_vars

\* a datagram without the magic cookie dropped by a server that holds leases
C8_Witness ==
  /\ dpc = "recv" /\ cur.kind = "nocookie" /\ out = <<>>
  /\ DOMAIN leases # {}

\* the highest address of the server's subnet, by arithmetic on each byte:
\* a netmask byte m leaves 256 - m host values
HighestOfSubnet(cfg) ==
  [i \in 1..4 |->
     LET span == 256 - cfg.SubnetMask[i]
     IN cfg.ServerIP[i] - (cfg.ServerIP[i] % span) + span - 1]

\* C11: every reply is sent first to the subnet broadcast address (server
\* address OR NOT mask) on port 68; the global broadcast address on port 68
\* is tried only after that send failed, and is the one step the server
\* takes then; nothing is sent to the address the request came from; a
\* reply has at most two send attempts, and once the first succeeded or
\* the second was made, whatever its outcome, the server is back in its
\* receive loop.
C11_BroadcastThenGlobal ==
  /\ Len(sends) <= 2
  /\ Len(out) = 1 => Len(sends) >= 1
  /\ \A i \in 1..Len(sends) :
       sends[i].Port = 68 /\ sends[i].IP # cur.remote
  /\ Len(sends) >= 1 => sends[1].IP = HighestOfSubnet(config)
  /\ Len(sends) = 2 =>
       ~sends[1].ok /\ sends[2].IP = <<255, 255, 255, 255>>
  /\ (Len(sends) = 1 /\ ~sends[1].ok) =>
       /\ dpc = "fallback"
       /\ ENABLED (\E fail \in BOOLEAN : sendReplyFallback(fail))
       /\ ~ENABLED (\E d \in DhcpInputs : dhcpListenAndServe(d))
  /\ (Len(sends) = 2 \/ (Len(sends) = 1 /\ sends[1].ok)) =>
       /\ dpc = "recv"
       /\ ENABLED (\E d \in DhcpInputs : dhcpListenAndServe(d))

\* both sends of an ACK failed
C11_Witness ==
  /\ Len(out) = 1 /\ MsgTypeOf(out[1]) = ACK
  /\ Len(sends) = 2 /\ ~sends[1].ok /\ ~sends[2].ok
  /\ cur.remote = <<10, 0, 0, 100>>

\* the first address of [RangeStart, RangeEnd], counting up from ip, that no
\* lease holds; <<>> when there is none
RECURSIVE FirstUnallocated(_, _, _)
FirstUnallocated(ip, cfg, used) ==
  IF ip \notin used THEN ip
  ELSE IF ip = cfg.RangeEnd THEN <<>>
  ELSE FirstUnallocated(Uint32Inc(ip), cfg, used)

\* C14: the reply to a DISCOVER of a hardware address without a lease is an
\* OFFER whose "your IP" is the first unallocated address of the configured
\* range, whose options carry the configured subnet mask, router, DNS
\* server, boot file name and TFTP server and a lease time of 3600 seconds,
\* and which echoes the request's transaction id and flags.
C14_OfferStep ==
  /\ (dpc = "sendOffer" /\ String(req.CHAddr) \notin DOMAIN leases) =>
       /\ dpc' = "sendReply"
       /\ call'.msgType = OFFER
       /\ call'.clientIP =
            FirstUnallocated(config.RangeStart, config,
                             { leases[k].IP : k \in DOMAIN leases })
  /\ (dpc = "sendReply" /\ call.msgType = OFFER) =>
       /\ Len(out') = 1
       /\ MsgTypeOf(out'[1]) = OFFER
       /\ out'[1].YIAddr = call.clientIP
       /\ out'[1].Options[OptSubnetMask] = config.SubnetMask
       /\ out'[1].Options[OptRouter] = config.ServerIP
       /\ out'[1].Options[OptDNS] = config.ServerIP
       /\ Uint32(out'[1].Options[OptLeaseTime]) = 3600
       /\ out'[1].Options[OptBootFile] = config.BootFile
       /\ out'[1].Options[OptTFTPServer] = config.TFTPServer
       /\ out'[1].XID = req.XID
       /\ out'[1].Flags = req.Flags

C14_OfferFirstUnallocated == [][C14_OfferStep]_vars

(***************************************************************************)
(* Paths (path/filepath on a Unix host): byte strings with the separator   *)
(* 47 and the dot 46.                                                      *)
(***************************************************************************)
Sep == 47

Dot == 46

DotDot == <<Dot, Dot>>

\* the elements of a path: the byte strings between separators
RECURSIVE Split(_, _)
Split(path, elem) ==
  IF path = <<>> THEN <<elem>>
  ELSE IF Head(path) = Sep THEN <<elem>> \o Split(Tail(path), <<>>)
  ELSE Split(Tail(path), Append(elem, Head(path)))

RECURSIVE JoinElems(_)
JoinElems(elems) ==
  IF elems = <<>> THEN <<>>
  ELSE IF Len(elems) = 1 THEN elems[1]
  ELSE elems[1] \o <<Sep>> \o JoinElems(Tail(elems))

\* filepath.Clean's pass over the elements: empty and "." elements are
\* dropped, ".." removes the element before it, is dropped at the root and
\* is kept at the start of a relative path
RECURSIVE CleanElems(_, _, _)
CleanElems(elems, kept, rooted) ==
  IF elems = <<>> THEN kept
  ELSE LET e == Head(elems) IN
    IF e = <<>> \/ e = <<Dot>> THEN CleanElems(Tail(elems), kept, rooted)
    ELSE IF e = DotDot THEN
      IF kept # <<>> /\ kept[Len(kept)] # DotDot
      THEN CleanElems(Tail(elems), SubSeq(kept, 1, Len(kept) - 1), rooted)
      ELSE IF rooted THEN CleanElems(Tail(elems), kept, rooted)
      ELSE CleanElems(Tail(elems), Append(kept, e), rooted)
    ELSE CleanElems(Tail(elems), Append(kept, e), rooted)

Clean(path) ==
  LET rooted == path # <<>> /\ path[1] = Sep
      kept == CleanElems(Split(path, <<>>), <<>>, rooted)
  IN IF rooted THEN <<Sep>> \o JoinElems(kept)
     ELSE IF kept = <<>> THEN <<Dot>>
     ELSE JoinElems(kept)

TrimPrefix(s, prefix) ==
  IF Len(s) >= Len(prefix) /\ SubSeq(s, 1, Len(prefix)) = prefix
  THEN SubSeq(s, Len(prefix) + 1, Len(s)) ELSE s

Contains(s, sub) ==
  \E i \in 1..(Len(s) - Len(sub) + 1) : SubSeq(s, i, i + Len(sub) - 1) = sub

\* filepath.Join(root, clean): empty elements are ignored, the others are
\* joined by the separator and the result is cleaned; "" when all are empty
Join(root, elem) ==
  IF root = <<>> /\ elem = <<>> THEN <<>>
  ELSE IF root = <<>> THEN Clean(elem)
  ELSE IF elem = <<>> THEN Clean(root)
  ELSE Clean(root \o <<Sep>> \o elem)

(***************************************************************************)
(* The file system: the TFTP root "/t", one file "a" under it and one file *)
(* "/a" outside it.                                                        *)
(***************************************************************************)
Root == <<Sep, 116>>

FilePath == <<Sep, 116, Sep, 97>>

OutsidePath == <<Sep, 97>>

FileSizes ==
  { q * blockSize + r : q \in 0..MaxFullBlocks, r \in {0, 1, blockSize - 1} }

FileSystem(size) == (FilePath :> size) @@ (OutsidePath :> 1)

\* os.ReadFile: the file's data (its length here), or an error
ReadFile(fs, path) ==
  IF path \in DOMAIN fs THEN [err |-> FALSE, len |-> fs[path]]
  ELSE [err |-> TRUE, len |-> 0]

(***************************************************************************)
(* The datagrams the TFTP socket receives.                                 *)
(***************************************************************************)
RRQ(name) == <<0, opRRQ>> \o name \o <<0, 111, 0>>

Junk ==
  { <<0, opWRQ, 97, 0, 111, 0>>, <<0, opACK, 0, 1>>, <<0, opRRQ, 97>>, <<>> }

\* the file names of the transfer scenarios: the file, a missing file, the
\* root itself, a name the sanitizer rejects
TransferNames == { <<97>>, <<98>>, <<>>, <<Dot, Dot, Sep, 97>> }

PathChars == {Sep, Dot, 97}

AllNames == UNION { [1..n -> PathChars] : n \in 0..MaxNameLen }

\* the bytes of rest up to its first 0
RECURSIVE UpToNul(_)
UpToNul(rest) ==
  IF rest = <<>> \/ Head(rest) = 0 THEN <<>>
  ELSE <<Head(rest)>> \o UpToNul(Tail(rest))

IsRRQ(d) == Len(d) >= 4 /\ Uint16(SubSeq(d, 1, 2)) = opRRQ

\* ListenAndServe (tftp): one datagram read; a read request starts a handler
tftpListenAndServe(d) ==
  /\ IsRRQ(d) => hpc = "none"
  /\ IF IsRRQ(d)
     THEN /\ hpc' = "start"
          /\ filename' = UpToNul(Slice(d, 2, Len(d)))
     ELSE UNCHANGED <<hpc, filename>>
  /\ UNCHANGED <<files, dataLen, block, offset, retries, dial, readPath, wire,
                 exhausted, acked, openPath>>
  /\ UNCHANGED <<dhcpVars, concVars, codecVars>>

(***************************************************************************)
(* handleRead.                                                             *)
(***************************************************************************)
Sanitize(name) == TrimPrefix(Clean(name), <<Sep>>)

Rejected_Never(clean) == FALSE

Rejected(clean) == Contains(clean, DotDot)

ErrMsgLen(name) == 16 + Len(name)

ErrorPacket_NoCode(name) ==
  [op |-> opERR, num |-> 0, off |-> 0, len |-> ErrMsgLen(name)]

ErrorPacket(name) ==
  [op |-> opERR, num |-> 1, off |-> 0, len |-> ErrMsgLen(name)]

ChunkLen(off, len) ==
  (IF off + blockSize > len THEN len ELSE off + blockSize) - off

DataPacket(blk, off, len) ==
  [op |-> opDATA, num |-> blk, off |-> off, len |-> ChunkLen(off, len)]

\* the path check, the file read and the socket to the requester
handleReadOpen(dialOk) ==
  /\ hpc = "start"
  /\ LET clean == Sanitize(filename)
         fullPath == Join(Root, clean)
         file == ReadFile(files, fullPath)
         dialled == IF dialOk THEN "ok" ELSE "err"
     IN IF Rejected(clean)
        THEN /\ hpc' = "done"
             /\ UNCHANGED <<dataLen, block, offset, retries, dial, readPath, wire,
                            openPath>>
        ELSE IF file.err
        THEN /\ hpc' = "done"
             /\ dial' = dialled
             /\ wire' = IF dialOk THEN Append(wire, ErrorPacket(filename)) ELSE wire
             /\ openPath' = fullPath
             /\ UNCHANGED <<dataLen, block, offset, retries, readPath>>
        ELSE /\ readPath' = fullPath
             /\ openPath' = fullPath
             /\ dataLen' = file.len
             /\ dial' = dialled
             /\ hpc' = IF dialOk THEN "send" ELSE "done"
             /\ block' = IF dialOk THEN 1 ELSE block
             /\ offset' = 0
             /\ retries' = 0
             /\ UNCHANGED wire
  /\ UNCHANGED <<files, filename, exhausted, acked>>
  /\ UNCHANGED <<dhcpVars, concVars, codecVars>>

MaxAttempts == 5

\* the packets and blocks the history keeps
HistoryLen == MaxAttempts * (MaxFullBlocks + 1)

\* conn.Write(pkt): one attempt of the current block
handleReadSend ==
  /\ hpc = "send"
  /\ wire' = IF Len(wire) < HistoryLen
             THEN Append(wire, DataPacket(block, offset, dataLen)) ELSE wire
  /\ hpc' = "wait"
  /\ UNCHANGED <<files, filename, dataLen, block, offset, retries, dial, readPath,
                 exhausted, acked, openPath>>
  /\ UNCHANGED <<dhcpVars, concVars, codecVars>>

\* what conn.Read gives within the deadline: an error (the timeout), or the
\* first bytes of a datagram in the 4-byte buffer
Timeout == [err |-> TRUE, n |-> 0, buf |-> <<0, 0, 0, 0>>]

ClientReplies ==
  {Timeout}
  \cup { [err |-> FALSE, n |-> 4, buf |-> <<0, opACK>> \o PutUint16(b)] :
           b \in 0..(MaxFullBlocks + 2) }
  \cup { [err |-> FALSE, n |-> 4, buf |-> <<0, opERR, 0, 0>>],
         [err |-> FALSE, n |-> 3, buf |-> <<0, opACK, 0, 0>>],
         [err |-> FALSE, n |-> 4, buf |-> <<0, opDATA, 0, 1>>] }

Acked(resp, blk) ==
  /\ ~resp.err
  /\ resp.n >= 4
  /\ Uint16(SubSeq(resp.buf, 1, 2)) = opACK
  /\ Uint16(SubSeq(resp.buf, 3, 4)) = blk

\* len(chunk) < blockSize: the block just handled was the final one
LastChunk(len) == len < blockSize

\* block++ on a uint16
NextBlock(blk) == (blk + 1) % 65536

\* offset = int(block-1) * blockSize, block-1 on a uint16
OffsetOf(blk) == ((blk + 65535) % 65536) * blockSize

\* conn.Read and what follows it: the retry loop's next turn or its end,
\* then the end of the transfer or the next block
handleReadRecv(resp) ==
  /\ hpc = "wait"
  /\ LET matched == Acked(resp, block)
         loopEnds == matched \/ retries + 1 >= MaxAttempts
         final == LastChunk(ChunkLen(offset, dataLen))
     IN /\ exhausted' = (exhausted \/ (loopEnds /\ ~matched))
        /\ hpc' = IF loopEnds /\ final THEN "done" ELSE "send"
        /\ retries' = IF loopEnds THEN 0 ELSE retries + 1
        /\ block' = IF loopEnds /\ ~final THEN NextBlock(block) ELSE block
        /\ offset' = IF loopEnds /\ ~final THEN OffsetOf(NextBlock(block)) ELSE offset
        /\ acked' = IF matched /\ Cardinality(acked) < HistoryLen
                    THEN acked \cup {[num |-> block, off |-> offset]} ELSE acked
  /\ UNCHANGED <<files, filename, dataLen, dial, readPath, wire, openPath>>
  /\ UNCHANGED <<dhcpVars, concVars, codecVars>>

(***************************************************************************)
(* SpecTftp: one read transfer, over the file sizes.                       *)
(* SpecPath: the same handler, over every file name up to MaxNameLen.      *)
(***************************************************************************)
DhcpIdle ==
  /\ config = [ServerIP |-> <<>>] /\ leases = <<>> /\ nextIP = <<>>
  /\ dpc = "off" /\ req = NoPacket /\ call = NoCall
  /\ cur = [kind |-> "none", mac |-> <<>>, remote |-> <<>>]
  /\ out = <<>> /\ sends = <<>> /\ offered = <<>> /\ order = <<>>

TftpInit(sizes) ==
  /\ files \in { FileSystem(size) : size \in sizes }
  /\ hpc = "none" /\ filename = <<>> /\ dataLen = 0
  /\ block = 0 /\ offset = 0 /\ retries = 0 /\ dial = "none"
  /\ readPath = <<>> /\ wire = <<>> /\ exhausted = FALSE
  /\ acked = {} /\ openPath = <<>>

InitTftp == TftpInit(FileSizes) /\ DhcpIdle /\ ConcIdle /\ CodecIdle

NextTftp ==
  \/ \E d \in { RRQ(name) : name \in TransferNames } \cup Junk :
       tftpListenAndServe(d)
  \/ \E dialOk \in BOOLEAN : handleReadOpen(dialOk)
  \/ handleReadSend
  \/ \E resp \in ClientReplies : handleReadRecv(resp)

SpecTftp == InitTftp /\ [][NextTftp]_vars

InitPath == TftpInit({blockSize}) /\ DhcpIdle /\ ConcIdle /\ CodecIdle

NextPath ==
  \/ \E d \in { RRQ(name) : name \in AllNames } \cup Junk :
       tftpListenAndServe(d)
  \/ \E dialOk \in BOOLEAN : handleReadOpen(dialOk)
  \/ handleReadSend
  \/ \E resp \in ClientReplies : handleReadRecv(resp)

SpecPath == InitPath /\ [][NextPath]_vars

(***************************************************************************)
(* Properties of the TFTP transfer engine.                                 *)
(***************************************************************************)
\* C1: once the five attempts of some block have all ended without a
\* matching ACK, no further DATA packet is sent for the transfer.
C1_AbandonAfterFiveFailures == [][exhausted => wire' = wire]_vars

\* the DATA packets of the wire without the repeats of a block
RECURSIVE Blocks(_)
Blocks(w) ==
  IF w = <<>> THEN <<>>
  ELSE IF Len(w) > 1 /\ w[1] = w[2] THEN Blocks(Tail(w))
  ELSE <<w[1]>> \o Blocks(Tail(w))

\* a finished transfer of a file that was read, all of whose blocks were
\* acknowledged
Transferred == hpc = "done" /\ readPath # <<>> /\ dial = "ok" /\ ~exhausted

CeilDiv(a, b) == (a + b - 1) \div b

\* the number of DATA blocks a file of S bytes is to be sent in:
\* ceil(S/512), and one more when S is a nonzero multiple of 512
BlocksOf(S) ==
  CeilDiv(S, blockSize) + (IF S > 0 /\ S % blockSize = 0 THEN 1 ELSE 0)

\* the DATA blocks of a finished, fully acknowledged transfer are BlocksOf(S)
\* blocks numbered 1, 2, ..., the additional one of length zero
C2_BlocksSent ==
  Transferred =>
    LET S == files[readPath]
        sent == Blocks(wire)
    IN /\ Len(sent) = BlocksOf(S)
       /\ \A i \in 1..Len(sent) : sent[i].op = opDATA /\ sent[i].num = i
       /\ (S > 0 /\ S % blockSize = 0) => sent[Len(sent)].len = 0

\* the block the handler goes on to has the next higher number, and there
\* is no block past the last one of the file
C2_NextBlock ==
  (hpc = "wait" /\ block' # block) =>
    block' = block + 1 /\ block' <= BlocksOf(dataLen)

\* whether a name has a parent-directory segment
HasParentSegment(name) ==
  \E i \in 1..Len(Split(name, <<>>)) : Split(name, <<>>)[i] = DotDot

\* C9 as stated: a request whose file name has a ".." segment anywhere
\* reads no file and gets no packet.
C9_AnyParentSegment ==
  (hpc # "none" /\ HasParentSegment(filename)) => readPath = <<>> /\ wire = <<>>

\* how far the first n elements of a path lead below (or, negative, above)
\* the directory the path starts in
RECURSIVE Depth(_, _)
Depth(elems, n) ==
  IF n = 0 THEN 0
  ELSE IF elems[n] = <<>> \/ elems[n] = <<Dot>> THEN Depth(elems, n - 1)
  ELSE IF elems[n] = DotDot THEN Depth(elems, n - 1) - 1
  ELSE (IF Depth(elems, n - 1) < 0 THEN 0 ELSE Depth(elems, n - 1)) + 1

\* a relative name one of whose ".." segments leads above the directory
\* the name starts in
Climbs(name) ==
  /\ name # <<>> /\ name[1] # Sep
  /\ \E n \in 1..Len(Split(name, <<>>)) :
       /\ Split(name, <<>>)[n] = DotDot
       /\ Depth(Split(name, <<>>), n - 1) <= 0

\* C9 amended: a request whose relative file name has a ".." segment that
\* leads above the root directory reads no file and gets no packet.
C9_ClimbingNameRejected ==
  (hpc # "none" /\ Climbs(filename)) =>
    readPath = <<>> /\ wire = <<>> /\ hpc \in {"start", "done"}

\* a rejected request for a name under the parent of the root
C9_Witness ==
  /\ hpc = "done" /\ Climbs(filename) /\ filename[Len(filename)] = 97
  /\ readPath = <<>> /\ wire = <<>>

\* a request the sanitizer passes for a path that is no file
Missing ==
  /\ hpc \notin {"none", "start"}
  /\ ~Contains(Sanitize(filename), DotDot)
  /\ Join(Root, Sanitize(filename)) \notin DOMAIN files

\* C10 as stated: a request for a file that cannot be opened yields exactly
\* one ERROR packet with code 1 and nothing else.
C10_ExactlyOneError ==
  Missing => hpc = "done" /\ Len(wire) = 1 /\ wire[1].op = opERR /\ wire[1].num = 1

\* C10 amended: such a request ends at once with no DATA packet and at most
\* one ERROR packet: exactly one, with code 1, when the socket to the
\* requester could be opened, none when it could not.
C10_OneErrorIfDialled ==
  Missing =>
    /\ hpc = "done" /\ readPath = <<>>
    /\ dial = "ok" => Len(wire) = 1 /\ wire[1].op = opERR /\ wire[1].num = 1
    /\ dial = "err" => wire = <<>>
    /\ dial \in {"ok", "err"}

\* a request for a missing file answered with the ERROR packet
C10_Witness ==
  /\ Missing /\ filename = <<98>> /\ dial = "ok" /\ Len(wire) = 1

\* C15: in both services the receive loop hands an accepted request to a
\* unit of work of its own and goes back to waiting: while a DHCP request's
\* reply is still to be sent, and while a TFTP transfer is running, the
\* service's loop can take the next datagram.
C15_LoopKeepsReceiving ==
  /\ ~req.err => ENABLED (\E d \in DhcpInputs : dhcpListenAndServe(d))
  /\ hpc \in {"start", "send", "wait"} =>
       ENABLED (\E d \in Junk : tftpListenAndServe(d))

\* C16: the transfer is lock-step: the first DATA packet has block number 1,
\* and each DATA packet either repeats the block number of the one before
\* or carries that number plus one, the latter only when a matching ACK was
\* read for the block before: DATA n+1 is never sent without ACK n.
C16_LockStep ==
  /\ \A i \in 1..Len(wire) :
       (wire[i].op = opDATA /\ i = 1) => wire[i].num = 1
  /\ \A i \in 1..(Len(wire) - 1) :
       \/ wire[i + 1].num = wire[i].num
       \/ /\ wire[i + 1].num = wire[i].num + 1
          /\ [num |-> wire[i].num, off |-> wire[i].off] \in acked

(***************************************************************************)
(* SpecWrap: one read transfer of a file of 65536 full blocks, to a client *)
(* that acknowledges every DATA packet at once.                            *)
(***************************************************************************)
WrapSize == 65536 * blockSize

AckOf(blk) == [err |-> FALSE, n |-> 4, buf |-> <<0, opACK>> \o PutUint16(blk)]

InitWrap == TftpInit({WrapSize}) /\ DhcpIdle /\ ConcIdle /\ CodecIdle

handleRead ==
  \/ \E dialOk \in BOOLEAN : handleReadOpen(dialOk)
  \/ handleReadSend
  \/ handleReadRecv(AckOf(block))

NextWrap ==
  \/ tftpListenAndServe(RRQ(<<97>>))
  \/ handleRead

SpecWrap == InitWrap /\ [][NextWrap]_vars

\* C2: for every size S >= 0 of a readable file whose blocks are all
\* acknowledged, the transfer sends exactly ceil(S/512) DATA blocks numbered
\* 1..N with strictly increasing block numbers, and one additional
\* zero-length final block when S is a nonzero multiple of 512 and only
\* then.
C2_CeilBlocks == []C2_BlocksSent /\ [][C2_NextBlock]_vars

\* C17: every accepted transfer terminates after finitely many DATA packets,
\* whatever the size of the file and the client's behaviour, a file of more
\* than 65535 blocks included: whenever the handler goes on to another
\* block, that block starts further into the file than the one before, so
\* that a file of n bytes is done after at most n \div 512 + 1 blocks.
C17_EveryBlockAdvances ==
  [][(hpc = "wait" /\ block' # block) => offset' > offset]_vars

\* C18: a block is sent at most MaxAttempts times, every time with the same
\* block number and payload, and a block for which a matching ACK was read
\* is not sent again (a resend follows only a timeout or a packet that is
\* not the block's ACK).
C18_Copies ==
  /\ \A i \in 1..Len(wire) :
       wire[i].op = opDATA =>
         Cardinality({ j \in 1..Len(wire) : wire[j].num = wire[i].num })
           <= MaxAttempts
  /\ \A i, j \in 1..Len(wire) :
       wire[i].num = wire[j].num => wire[i] = wire[j]

C18_SendStep ==
  (hpc = "send" /\ hpc' = "wait") =>
    [num |-> block, off |-> offset] \notin acked

C18_AtMostFiveCopies == []C18_Copies /\ [][C18_SendStep]_vars

\* C19: whatever file name a read request carries, the path handleRead
\* gives to ReadFile lies under the TFTP root: it is the root or starts with
\* the root and a separator, and has no parent segment.
UnderRoot(path) ==
  /\ Len(path) >= Len(Root)
  /\ SubSeq(path, 1, Len(Root)) = Root
  /\ Len(path) > Len(Root) => path[Len(Root) + 1] = Sep
  /\ ~HasParentSegment(path)

C19_OpensUnderRoot == openPath # <<>> => UnderRoot(openPath)

\* a name with a parent segment that stays inside the root was opened
C19_Witness ==
  /\ openPath = FilePath /\ readPath = FilePath
  /\ HasParentSegment(filename)

(***************************************************************************)
(* SpecConc: allocateIP called from several goroutines at once, statement  *)
(* by statement, under the Server's mutex.                                 *)
(***************************************************************************)
Callers == 1..NumCallers

ConcMACs == { <<2, 0, 0, 0, 0, 1>>, <<2, 0, 0, 0, 0, 2>> }

MuFree_Always(m) == TRUE

\* s.mu.Lock() goes through when no goroutine holds the mutex
MuFree(m) == m = 0

allocCall(c, mac) ==
  /\ cpc[c] \in {"idle", "done"}
  /\ cpc' = [cpc EXCEPT ![c] = "lock"]
  /\ cmac' = [cmac EXCEPT ![c] = mac]
  /\ cip' = [cip EXCEPT ![c] = <<>>]
  /\ cret' = [cret EXCEPT ![c] = <<>>]
  /\ UNCHANGED <<mu, dhcpVars, tftpVars, codecVars>>

allocLock(c) ==
  /\ cpc[c] = "lock"
  /\ MuFree(mu)
  /\ mu' = c
  /\ cpc' = [cpc EXCEPT ![c] = "lookup"]
  /\ UNCHANGED <<cmac, cip, cret, dhcpVars, tftpVars, codecVars>>

allocLookup(c) ==
  /\ cpc[c] = "lookup"
  /\ LET macStr == String(cmac[c])
         found == HasLease(leases, macStr)
     IN /\ cip' = [cip EXCEPT ![c] = IF found THEN leases[macStr].IP ELSE @]
        /\ cpc' = [cpc EXCEPT ![c] = IF found THEN "return" ELSE "insert"]
  /\ UNCHANGED <<mu, cmac, cret, dhcpVars, tftpVars, codecVars>>

allocInsert(c) ==
  /\ cpc[c] = "insert"
  /\ LET macStr == String(cmac[c])
         ip == NewLeaseIP(nextIP)
     IN /\ cip' = [cip EXCEPT ![c] = ip]
        /\ leases' = SetLease(leases, macStr, [IP |-> ip, MAC |-> cmac[c]])
        /\ order' = IF macStr \in DOMAIN leases THEN order ELSE Append(order, macStr)
  /\ cpc' = [cpc EXCEPT ![c] = "advance"]
  /\ UNCHANGED <<mu, cmac, cret, tftpVars, codecVars>>
  /\ UNCHANGED <<config, nextIP, dpc, req, call, cur, out, sends, offered>>

allocAdvance(c) ==
  /\ cpc[c] = "advance"
  /\ nextIP' = AdvanceCursor(nextIP)
  /\ cpc' = [cpc EXCEPT ![c] = "return"]
  /\ UNCHANGED <<mu, cmac, cip, cret, tftpVars, codecVars>>
  /\ UNCHANGED <<config, leases, dpc, req, call, cur, out, sends, offered,
               order>>

\* return ip, with the deferred s.mu.Unlock()
allocReturn(c) ==
  /\ cpc[c] = "return"
  /\ mu' = 0
  /\ cret' = [cret EXCEPT ![c] = cip[c]]
  /\ cpc' = [cpc EXCEPT ![c] = "done"]
  /\ UNCHANGED <<cmac, cip, dhcpVars, tftpVars, codecVars>>

InitConc ==
  /\ config \in Configs
  /\ leases = NewServer(config).leases
  /\ nextIP = NewServer(config).nextIP
  /\ dpc = "off" /\ req = NoPacket /\ call = NoCall
  /\ cur = [kind |-> "none", mac |-> <<>>, remote |-> <<>>]
  /\ out = <<>> /\ sends = <<>> /\ offered = NoLeases /\ order = <<>>
  /\ mu = 0
  /\ cpc = [c \in Callers |-> "idle"]
  /\ cmac = [c \in Callers |-> <<>>]
  /\ cip = [c \in Callers |-> <<>>]
  /\ cret = [c \in Callers |-> <<>>]
  /\ TftpIdle /\ CodecIdle

NextConc ==
  \/ \E c \in Callers, mac \in ConcMACs : allocCall(c, mac)
  \/ \E c \in Callers : allocLock(c)
  \/ \E c \in Callers : allocLookup(c)
  \/ \E c \in Callers : allocInsert(c)
  \/ \E c \in Callers : allocAdvance(c)
  \/ \E c \in Callers : allocReturn(c)

SpecConc == InitConc /\ [][NextConc]_vars

RECURSIVE IncN(_, _)
IncN(ip, n) == IF n = 0 THEN ip ELSE Uint32Inc(IncN(ip, n - 1))

InCritical(c) == cpc[c] \in {"lookup", "insert", "advance", "return"}

\* C6: lookup, insertion and cursor advance of concurrent calls take effect
\* as one step: at most one call is between its Lock and its Unlock, every
\* call returns the one lease of its hardware address (so calls for the same
\* hardware address return the same address and calls for different ones
\* different addresses), and the cursor has advanced once per lease.
C6_AtomicAllocate ==
  /\ Cardinality({ c \in Callers : InCritical(c) }) <= 1
  /\ \A c \in Callers : cpc[c] = "done" =>
       /\ String(cmac[c]) \in DOMAIN leases
       /\ cret[c] = leases[String(cmac[c])].IP
  /\ \A c1, c2 \in Callers : (cpc[c1] = "done" /\ cpc[c2] = "done") =>
       ((cmac[c1] = cmac[c2]) <=> (cret[c1] = cret[c2]))
  /\ nextIP = IncN(config.RangeStart,
                   Cardinality(DOMAIN leases)
                     - Cardinality({ c \in Callers : cpc[c] = "advance" }))

\* one call has inserted its lease and not yet advanced the cursor while
\* another call for the same hardware address waits for the mutex
C6_Witness ==
  \E c1, c2 \in Callers :
    /\ c1 # c2 /\ cpc[c1] = "advance" /\ cpc[c2] = "lock"
    /\ cmac[c1] = cmac[c2]

(***************************************************************************)
(* The DHCP packet encoder.  Go iterates over the Options map in an order *)
(* the runtime chooses anew at every range statement: iter is that        *)
(* choice, a sequence holding every tag of the map once.                   *)
(***************************************************************************)
BufLen == 576

RECURSIVE Fact(_)
Fact(n) == IF n = 0 THEN 1 ELSE n * Fact(n - 1)

\* the elements of a set of option codes, ascending
RECURSIVE Sorted(_)
Sorted(S) ==
  IF S = {} THEN <<>>
  ELSE LET m == CHOOSE a \in S : \A b \in S : a <= b
       IN <<m>> \o Sorted(S \ {m})

\* the c-th arrangement of the sequence s, c in 0..Fact(Len(s))-1: every
\* arrangement of s is the c-th for exactly one c
RECURSIVE NthPerm(_, _)
NthPerm(s, c) ==
  IF s = <<>> THEN <<>>
  ELSE LET n == Len(s)
           i == (c % n) + 1
       IN <<s[i]>> \o
          NthPerm(SubSeq(s, 1, i - 1) \o SubSeq(s, i + 1, n), c \div n)

\* range p.Options visits every key once in an order the runtime picks:
\* the orders are numbered 0..NumOrders(opts)-1
NumOrders(opts) == Fact(Cardinality(DOMAIN opts))

Order(opts, c) == NthPerm(Sorted(DOMAIN opts), c)

\* the fit test of the range loop of serializePacket
Fits_Always(i, data) == TRUE

Fits(i, data) == ~(i + 2 + Len(data) >= BufLen)

\* the range loop of serializePacket: buf is buf[:i]
RECURSIVE serializeOptions(_, _, _, _)
serializeOptions(opts, iter, k, buf) ==
  IF k > Len(iter) THEN buf
  ELSE LET opt == iter[k]
           data == opts[opt]
       IN IF ~Fits(Len(buf), data) THEN buf
          ELSE serializeOptions(opts, iter, k + 1,
                                buf \o <<opt, Len(data) % 256>> \o data)

serializePacket(p, iter) ==
  serializeOptions(p.Options, iter, 1,
    <<p.Op, p.HType, p.HLen, p.Hops>> \o PutUint32(p.XID) \o
    PutUint16(p.Secs) \o PutUint16(p.Flags) \o
    CopyInto(4, p.CIAddr) \o CopyInto(4, p.YIAddr) \o
    CopyInto(4, p.SIAddr) \o CopyInto(4, p.GIAddr) \o
    CopyInto(6, p.CHAddr) \o Zeros(10) \o
    CopyInto(64, p.SName) \o CopyInto(128, p.File) \o
    <<99, 130, 83, 99>>)
  \o <<OptEnd>>

(***************************************************************************)
(* SpecCodec: parsePacket applied to one datagram, serializePacket applied *)
(* to the packet it returned or to a packet built for a reply.  The        *)
(* datagrams are a request header followed                                 *)
(* by every byte string over OptBytes up to MaxOptLen bytes, with and      *)
(* without the magic cookie, and a header with every field set followed by *)
(* terminated option lists up to and past the 576 bytes of the encoder's   *)
(* buffer.                                                                 *)
(***************************************************************************)
OptBytes == {0, 1, OptMessageType, OptEnd}

OptionAreas == UNION { [1..n -> OptBytes] : n \in 0..MaxOptLen }

FullHeader ==
  <<2, 1, 6, 3>> \o <<0, 1, 2, 3>> \o <<0, 9>> \o <<128, 0>> \o
  <<10, 0, 0, 5>> \o <<10, 0, 0, 6>> \o <<10, 0, 0, 1>> \o <<10, 0, 0, 7>> \o
  <<2, 0, 0, 0, 0, 9>> \o [i \in 1..10 |-> 7] \o
  [i \in 1..64 |-> 115] \o [i \in 1..128 |-> 102]

\* one option: tag, length n, n bytes of value
Opt(tag, n, fill) == <<tag, n>> \o [i \in 1..n |-> fill]

OptionLists ==
  { <<OptEnd>>,
    Opt(OptMessageType, 1, 1) \o <<OptEnd>>,
    Opt(OptMessageType, 1, 3) \o Opt(61, 7, 9) \o <<0, 0, OptEnd, 0>>,
    Opt(OptMessageType, 0, 0) \o <<OptEnd>>,
    Opt(OptBootFile, 255, 97) \o Opt(OptTFTPServer, 76, 98) \o <<OptEnd>>,
    Opt(OptBootFile, 255, 97) \o Opt(OptTFTPServer, 77, 98) \o <<OptEnd>>,
    Opt(OptBootFile, 200, 97) \o Opt(OptTFTPServer, 200, 98) \o <<OptEnd>>,
    Opt(OptBootFile, 200, 97) \o Opt(OptTFTPServer, 200, 98) \o
      Opt(OptMessageType, 1, 1) \o <<OptEnd>> }

CodecInputs ==
  { Bootp(Xid(Mac1), 0, Mac1, c, o) :
      c \in {Cookie, <<99, 130, 83, 0>>}, o \in OptionAreas }
  \cup { FullHeader \o Cookie \o o : o \in OptionLists }
  \cup { SubSeq(FullHeader \o Cookie, 1, 239), SubSeq(FullHeader, 1, 10) }

\* parsePacket on a datagram
Decode(d) ==
  /\ codecIn = <<>> /\ codecPkt.err
  /\ codecIn' = d
  /\ codecPkt' = parsePacket(d)
  /\ codecOut' = <<>>
  /\ UNCHANGED <<dhcpVars, concVars, tftpVars>>

\* serializePacket on the decoded packet, any number of times, or on the
\* reply built, which sendReply serializes once
Encode ==
  /\ ~codecPkt.err
  /\ codecIn = <<>> => codecOut = <<>>
  /\ \E c \in 0..(NumOrders(codecPkt.Options) - 1) :
       codecOut' = serializePacket(codecPkt, Order(codecPkt.Options, c))
  /\ UNCHANGED <<codecIn, codecPkt>>
  /\ UNCHANGED <<dhcpVars, concVars, tftpVars>>

\* the configuration of the replies encoded: its boot file name is longer
\* than a length byte holds and than the encoder's buffer has room for next
\* to the other options (main passes the flag boot-file on unchecked)
ReplyConfigs ==
  { [ServerIP |-> <<10, 0, 0, 1>>, RangeStart |-> <<10, 0, 0, 100>>,
     RangeEnd |-> <<10, 0, 0, 101>>, SubnetMask |-> <<255, 255, 255, 0>>,
     BootFile |-> [i \in 1..333 |-> 97],
     TFTPServer |-> <<49, 48, 46, 48, 46, 48, 46, 49>>] }

\* the replies sendReply builds and serializes for a DISCOVER
ReplyPackets ==
  { BuildReply(cfg,
               parsePacket(Bootp(Xid(Mac1), 32768, Mac1, Cookie,
                                 <<OptMessageType, 1, DISCOVER, OptEnd>>)),
               OFFER, cfg.RangeStart) : cfg \in ReplyConfigs }

\* reply := &Packet{...} of sendReply
Build(p) ==
  /\ codecIn = <<>> /\ codecPkt.err
  /\ codecPkt' = [f \in DOMAIN p \cup {"err"} |->
                    IF f = "err" THEN FALSE ELSE p[f]]
  /\ codecOut' = <<>>
  /\ UNCHANGED codecIn
  /\ UNCHANGED <<dhcpVars, concVars, tftpVars>>

InitCodec == CodecIdle /\ DhcpIdle /\ ConcIdle /\ TftpIdle

NextCodec ==
  \/ \E d \in CodecInputs : Decode(d)
  \/ \E p \in ReplyPackets : Build(p)
  \/ Encode

SpecCodec == InitCodec /\ [][NextCodec]_vars

(***************************************************************************)
(* Properties of the packet codec.                                         *)
(***************************************************************************)
\* the bytes the options of a packet take when all of them are written
RECURSIVE OptionBytes(_, _)
OptionBytes(opts, tags) ==
  IF tags = {} THEN 0
  ELSE LET t == CHOOSE x \in tags : TRUE
       IN 2 + Len(opts[t]) + OptionBytes(opts, tags \ {t})

\* C12: when the options of a packet do not fit the encoder's buffer the
\* overflow is reported and never silent: every byte string the encoder
\* returns holds all options of its packet; and the encoder is
\* deterministic: encoding the same packet again returns the same bytes.
C12_NoSilentDrop ==
  codecOut # <<>> =>
    Len(codecOut) = 240 + OptionBytes(codecPkt.Options, DOMAIN codecPkt.Options) + 1

C12_SameBytes ==
  (codecOut # <<>> /\ codecPkt' = codecPkt /\
   240 + OptionBytes(codecPkt.Options, DOMAIN codecPkt.Options) + 1 > BufLen)
    => codecOut' = codecOut

C12_OverflowReported == []C12_NoSilentDrop /\ [][C12_SameBytes]_vars

\* a well-formed datagram: at least 240 bytes, the magic cookie at offset
\* 236, then options each with its length byte and whole value, closed by
\* the end marker
RECURSIVE Terminated(_, _)
Terminated(d, i) ==
  /\ i < Len(d)
  /\ \/ At(d, i) = OptEnd
     \/ At(d, i) = 0 /\ Terminated(d, i + 1)
     \/ /\ At(d, i) \notin {0, OptEnd}
        /\ i + 1 < Len(d)
        /\ i + 2 + At(d, i + 1) <= Len(d)
        /\ Terminated(d, i + 2 + At(d, i + 1))

WellFormed(d) ==
  /\ Len(d) >= 240
  /\ Slice(d, 236, 240) = <<99, 130, 83, 99>>
  /\ Terminated(d, 240)

\* C13: decoding a well-formed datagram, encoding the packet and decoding
\* the encoding gives the packet again: the same fixed fields and the same
\* option map.
C13_RoundTrip ==
  (WellFormed(codecIn) /\ codecOut # <<>>) => parsePacket(codecOut) = codecPkt

\* C20: parsePacket returns a packet for every datagram of at least 240
\* bytes.  It has options only when the magic cookie is at offset 236; a
\* tag 0 is skipped as one byte; tag 255 ends the options; an option whose
\* length byte or value would lie past the end of the datagram ends them
\* too, the options before it kept; of two options with one tag the later
\* one counts; and every value is a part of the datagram: nothing is read
\* past its end.  Stated on the option area by its first item: Rest(k) is
\* the decoding of the datagram without the first k bytes of that area.
C20_DecodeTotal ==
  Len(codecIn) >= 240 =>
    /\ ~codecPkt.err
    /\ LET opts == codecPkt.Options
           area == SubSeq(codecIn, 241, Len(codecIn))
           Rest(k) == parsePacket(SubSeq(codecIn, 1, 240) \o
                                  SubSeq(area, k + 1, Len(area))).Options
       IN /\ IF Slice(codecIn, 236, 240) # <<99, 130, 83, 99>> \/ area = <<>>
               THEN opts = NoOptions
             ELSE IF area[1] = 255 THEN opts = NoOptions
             ELSE IF area[1] = 0 THEN opts = Rest(1)
             ELSE IF Len(area) < 2 \/ 2 + area[2] > Len(area)
               THEN opts = NoOptions
             ELSE opts = Rest(2 + area[2]) @@
                         (area[1] :> SubSeq(area, 3, 2 + area[2]))
          /\ \A t \in DOMAIN opts :
               \E p \in 1..Len(area) :
                 /\ area[p] = t /\ t \notin {0, 255}
                 /\ p + 1 + Len(opts[t]) <= Len(area)
                 /\ area[p + 1] = Len(opts[t])
                 /\ SubSeq(area, p + 2, p + 1 + Len(opts[t])) = opts[t]

\* a datagram with the same tag twice was decoded: the second value counts
C20_Witness ==
  /\ Len(codecIn) = 245
  /\ SubSeq(codecIn, 241, 245) = <<OptMessageType, 0, OptMessageType, 1, 1>>
  /\ codecPkt.Options = (OptMessageType :> <<1>>)

\* C21: whatever the number and lengths of a packet's options,
\* serializePacket stays inside its buffer of 576 bytes: what it returns is
\* the 240 bytes of header and cookie and at most 336 bytes more, has the
\* magic cookie at offset 236, and ends with the tag 255.
C21_EncodeInBuffer ==
  codecOut # <<>> =>
    /\ Len(codecOut) > 240
    /\ Len(codecOut) <= 576
    /\ Slice(codecOut, 236, 240) = <<99, 130, 83, 99>>
    /\ codecOut[Len(codecOut)] = 255

\* a packet whose options need more than the buffer has was encoded
C21_Witness ==
  /\ codecOut # <<>>
  /\ 240 + OptionBytes(codecPkt.Options, DOMAIN codecPkt.Options) + 1 > BufLen
  /\ \E t \in DOMAIN codecPkt.Options : Len(codecPkt.Options[t]) > 255

========================================================================
